---------------------------- MODULE Spec2Model ----------------------------
(***************************************************************************)
(* A model of fv-alfred's "create Linear issue" command:                   *)
(*   src/src/create-linear-issue-logic.js     (matching, parsing,          *)
(*                                             preferences, workflow)      *)
(*   src/src/create-linear-issue-mutation.js  (main, createIssueMutation)  *)
(*                                                                         *)
(* Encoding of JavaScript values                                           *)
(*   - a string is a tuple of one-character strings; the empty tuple       *)
(*     stands for "" and also for a null/undefined string, which the code  *)
(*     never tells apart (filter(Boolean), ||, !x);                        *)
(*   - an entity id is a TLA+ string, Null stands for null/undefined;      *)
(*   - a nullable number is NoNum (null/undefined) or Num(n).              *)
(***************************************************************************)
EXTENDS Integers, Sequences, FiniteSets, TLC

VARIABLES mc, rs, ps, file, now, pc, run, bg, sent

vars == <<mc, rs, ps, file, now, pc, run, bg, sent>>

\* The variables of the command's runs.
runVars == <<file, now, pc, run, bg, sent>>

(***************************************************************************)
(* JavaScript values                                                       *)
(***************************************************************************)
Null == "null"

NoNum == <<>>

Num(n) == <<n>>

\* JavaScript truthiness of a nullable number: null, undefined and 0 are falsy.
TruthyNum(x) == x # NoNum /\ x # Num(0)

\* JavaScript truthiness of a string: "" (and null) are falsy.
TruthyStr(s) == s # <<>>

(***************************************************************************)
(* Characters                                                              *)
(***************************************************************************)
\* The characters the regular expression class \s matches, among those the
\* model uses.
WhiteSpace == {" ", "\t"}

UpperCase ==
  <<"A", "B", "C", "D", "E", "F", "G", "H", "I", "J", "K", "L", "M",
    "N", "O", "P", "Q", "R", "S", "T", "U", "V", "W", "X", "Y", "Z">>

LowerCase ==
  <<"a", "b", "c", "d", "e", "f", "g", "h", "i", "j", "k", "l", "m",
    "n", "o", "p", "q", "r", "s", "t", "u", "v", "w", "x", "y", "z">>

\* The order of the characters under the root collation that localeCompare
\* uses: white space, then punctuation, then digits, then letters.
Collation ==
  <<"\t", " ", "_", "-", "@", "0", "1", "2", "3", "4", "9",
    "a", "b", "c", "d", "e", "f", "g", "h", "i", "j", "k", "l", "m",
    "n", "o", "p", "q", "r", "s", "t", "u", "v", "w", "x", "y", "z">>

\* The characters of the model.
Chars ==
  { UpperCase[i] : i \in DOMAIN UpperCase } \cup { Collation[i] : i \in DOMAIN Collation }

LowerOf ==
  [c \in Chars |->
     IF \E i \in DOMAIN UpperCase : UpperCase[i] = c
     THEN LowerCase[CHOOSE i \in DOMAIN UpperCase : UpperCase[i] = c]
     ELSE c]

\* String.prototype.toLowerCase on one character.
ToLowerCase(c) == LowerOf[c]

PrimaryWeightOf ==
  [c \in Chars |-> CHOOSE i \in DOMAIN Collation : Collation[i] = LowerOf[c]]

\* Primary weight: the place of the letter, whatever its case.
PrimaryWeight(c) == PrimaryWeightOf[c]

\* Tertiary (case) weight: a lower-case letter sorts before its upper-case form.
TertiaryWeight(c) == IF ToLowerCase(c) = c THEN 0 ELSE 1

RECURSIVE CompareWeights(_, _, _)
CompareWeights(a, b, i) ==
  IF i > Len(a) /\ i > Len(b) THEN 0
  ELSE IF i > Len(a) THEN 0 - 1
  ELSE IF i > Len(b) THEN 1
  ELSE IF a[i] < b[i] THEN 0 - 1
  ELSE IF a[i] > b[i] THEN 1
  ELSE CompareWeights(a, b, i + 1)

\* String.prototype.localeCompare: the primary weights of the whole strings
\* decide first, the case of the letters only between strings that are equal
\* otherwise.
localeCompare(a, b) ==
  LET pa == [i \in 1..Len(a) |-> PrimaryWeight(a[i])]
      pb == [i \in 1..Len(b) |-> PrimaryWeight(b[i])]
      ta == [i \in 1..Len(a) |-> TertiaryWeight(a[i])]
      tb == [i \in 1..Len(b) |-> TertiaryWeight(b[i])]
      p  == CompareWeights(pa, pb, 1)
  IN  IF p # 0 THEN p ELSE CompareWeights(ta, tb, 1)

(***************************************************************************)
(* Utility functions                                                       *)
(***************************************************************************)
IsSeparator(c) == c \in WhiteSpace \/ c = "_" \/ c = "-"

\* sanitise(x): x.replace(/[\s_-]/g, "").toLowerCase()
sanitise(x) ==
  LET kept == SelectSeq(x, LAMBDA c : ~IsSeparator(c))
  IN  [i \in 1..Len(kept) |-> ToLowerCase(kept[i])]

startsWith(s, p) == Len(p) <= Len(s) /\ SubSeq(s, 1, Len(p)) = p

\* fuzzyMatch(string, substr)
fuzzyMatch(string, substr) == startsWith(sanitise(string), sanitise(substr))

\* word.substring(1)
Substring1(word) == SubSeq(word, 2, Len(word))

(***************************************************************************)
(* The priority table (priorities)                                         *)
(***************************************************************************)
priorities ==
  << [label |-> <<"N","o"," ","p","r","i","o","r","i","t","y">>, id |-> 0],
     [label |-> <<"u","r","g","e","n","t">>, id |-> 1],
     [label |-> <<"p","0">>,                 id |-> 1],
     [label |-> <<"1">>,                     id |-> 1],
     [label |-> <<"u">>,                     id |-> 1],
     [label |-> <<"h","i","g","h">>,         id |-> 2],
     [label |-> <<"p","1">>,                 id |-> 2],
     [label |-> <<"2">>,                     id |-> 2],
     [label |-> <<"h">>,                     id |-> 2],
     [label |-> <<"m","e","d","i","u","m">>, id |-> 3],
     [label |-> <<"p","2">>,                 id |-> 3],
     [label |-> <<"3">>,                     id |-> 3],
     [label |-> <<"m">>,                     id |-> 3],
     [label |-> <<"l","o","w">>,             id |-> 4],
     [label |-> <<"p","3">>,                 id |-> 4],
     [label |-> <<"4">>,                     id |-> 4],
     [label |-> <<"l">>,                     id |-> 4] >>

(***************************************************************************)
(* findBestMatch                                                           *)
(***************************************************************************)
\* email?.split("@")[0]
RECURSIVE EmailLocalPart(_)
EmailLocalPart(email) ==
  IF email = <<>> \/ Head(email) = "@" THEN <<>>
  ELSE <<Head(email)>> \o EmailLocalPart(Tail(email))

\* The getMatchableStrings argument that processParameters passes for each
\* entity kind.
getMatchableStrings(key, item) ==
  CASE key = "projects"   -> <<item.name>>
    [] key = "teams"      -> <<item.name, item.key>>
    [] key = "users"      -> <<item.name, item.displayName, EmailLocalPart(item.email)>>
    [] key = "priorities" -> <<item.label>>

RECURSIVE MathMin(_)
MathMin(ns) ==
  IF ns = <<>> THEN "Infinity"
  ELSE IF Len(ns) = 1 THEN ns[1]
  ELSE LET m == MathMin(Tail(ns))
       IN  IF ns[1] <= m THEN ns[1] ELSE m

\* One element of the array that collection.map builds.
Candidate(item, key, searchTerm) ==
  LET sanitizedSearchTerm == sanitise(searchTerm)
      matchableStrings == SelectSeq(getMatchableStrings(key, item), TruthyStr)
      matches ==
        [i \in 1..Len(matchableStrings) |->
           [original  |-> matchableStrings[i],
            sanitized |-> sanitise(matchableStrings[i]),
            isExact   |-> sanitise(matchableStrings[i]) = sanitizedSearchTerm,
            isFuzzy   |-> fuzzyMatch(matchableStrings[i], searchTerm)]]
      kept == SelectSeq(matches, LAMBDA m : m.isExact \/ m.isFuzzy)
  IN  [item                |-> item,
       matches             |-> kept,
       hasExactMatch       |-> \E i \in 1..Len(matches) : matches[i].isExact,
       shortestMatchLength |-> MathMin([i \in 1..Len(kept) |-> Len(kept[i].original)]),
       \* getMatchableStrings(item)[0] || ''
       primary             |-> getMatchableStrings(key, item)[1]]

\* The comparator without its first rule; used only to show that the ranking
\* theorem depends on "exact matches always win".
CompareIgnoringExact(a, b) ==
  LET lengthDiff == a.shortestMatchLength - b.shortestMatchLength
  IN  IF lengthDiff # 0 THEN lengthDiff
      ELSE localeCompare(a.primary, b.primary)

\* The comparator given to sort.
CompareCandidates(a, b) ==
  IF a.hasExactMatch /\ ~b.hasExactMatch THEN 0 - 1
  ELSE IF ~a.hasExactMatch /\ b.hasExactMatch THEN 1
  ELSE LET lengthDiff == a.shortestMatchLength - b.shortestMatchLength
       IN  IF lengthDiff # 0 THEN lengthDiff
           ELSE localeCompare(a.primary, b.primary)

\* Array.prototype.sort is stable: an element goes before the first element
\* that the comparator puts strictly after it.
RECURSIVE InsertSorted(_, _)
InsertSorted(sorted, x) ==
  IF sorted = <<>> THEN <<x>>
  ELSE IF CompareCandidates(x, Head(sorted)) < 0 THEN <<x>> \o sorted
  ELSE <<Head(sorted)>> \o InsertSorted(Tail(sorted), x)

RECURSIVE Sort(_)
Sort(cs) ==
  IF cs = <<>> THEN <<>>
  ELSE InsertSorted(Sort(SubSeq(cs, 1, Len(cs) - 1)), cs[Len(cs)])

\* findBestMatch(word, collection, getMatchableStrings): <<>> for null, else
\* <<item>>.
findBestMatch(word, collection, key) ==
  IF word = <<>> THEN <<>>
  ELSE LET searchTerm == Substring1(word)
           candidates == [i \in 1..Len(collection) |->
                            Candidate(collection[i], key, searchTerm)]
           candidatesWithMatches ==
             SelectSeq(candidates, LAMBDA c : Len(c.matches) > 0)
       IN  IF Len(candidatesWithMatches) = 0 THEN <<>>
           ELSE << Sort(candidatesWithMatches)[1].item >>

(***************************************************************************)
(* SpecMatch: findBestMatch on bounded candidate lists                     *)
(***************************************************************************)
MaxCands == 3

SeqsUpTo(S, n) == UNION { [1..k -> S] : k \in 0..n }

\* Candidates shaped like teams (a name and an optional key).
MatchItems ==
  { [id |-> "c1", name |-> <<"m">>,                     key |-> <<>>],
    [id |-> "c2", name |-> <<"m","e","d","i","u","m">>, key |-> <<>>],
    [id |-> "c3", name |-> <<"M","-","_","e">>,         key |-> <<>>],
    [id |-> "c4", name |-> <<"m","e","d">>,             key |-> <<>>],
    [id |-> "c5", name |-> <<"m","e","d","i","u","m">>, key |-> <<"m","e">>],
    [id |-> "c6", name |-> <<"m","b">>,                 key |-> <<>>],
    [id |-> "c7", name |-> <<"m","a">>,                 key |-> <<>>],
    [id |-> "c8", name |-> <<"M","a">>,                 key |-> <<>>],
    [id |-> "c9", name |-> <<"x">>,                     key |-> <<"m","_">>] }

MatchWords ==
  { <<"-","m">>, <<"-","m","e">>, <<"-","M","_","E">>, <<"-","m","a">>,
    <<"-","m","e","d">>, <<"-","z">>, <<"-","-">> }

\* The value of rs while another specification runs.
IdleResolve == [pc |-> "idle"]

\* The value of ps while another specification runs.
IdleParse == [pc |-> "idle"]

\* The command does not run while another specification runs.
RunsOff ==
  /\ file = <<>>
  /\ now = 0
  /\ pc = "off"
  /\ run = [outcome |-> "off"]
  /\ bg = 0
  /\ sent = <<>>

InitMatch ==
  /\ rs = IdleResolve
  /\ ps = IdleParse
  /\ RunsOff
  /\ mc \in [word : MatchWords, coll : SeqsUpTo(MatchItems, MaxCands),
          done : {FALSE}, result : {<<>>}]

\* One call findBestMatch(word, collection, (team) => [team.name, team.key]).
MatchCall ==
  /\ ~mc.done
  /\ mc' = [mc EXCEPT !.done = TRUE,
                      !.result = findBestMatch(mc.word, mc.coll, "teams")]
  /\ UNCHANGED <<rs, ps, runVars>>

NextMatch == MatchCall

SpecMatch == InitMatch /\ [][NextMatch]_vars

\* The ranking stated from the candidates' strings, not from the sort.
McTerm == sanitise(Substring1(mc.word))

McStrings(item) == {item.name, item.key} \ {<<>>}

McExact(item) == \E s \in McStrings(item) : sanitise(s) = McTerm

McQualifying(item) ==
  { s \in McStrings(item) : startsWith(sanitise(s), McTerm) }

McShortest(item) ==
  CHOOSE n \in { Len(s) : s \in McQualifying(item) } :
    \A s \in McQualifying(item) : n <= Len(s)

McQualified == { i \in DOMAIN mc.coll : McQualifying(mc.coll[i]) # {} }

\* C3: findBestMatch returns a candidate with an exact normalized match
\* whenever one exists, whatever the lengths; among candidates of equal
\* exactness the one whose shortest qualifying string is shortest wins;
\* remaining ties go to the alphabetically first primary string.
C3_ExactThenShortestThenAlphabetical ==
  mc.done =>
    IF McQualified = {} THEN mc.result = <<>>
    ELSE /\ mc.result # <<>>
         /\ LET r == mc.result[1]
            IN  /\ \E i \in McQualified : mc.coll[i] = r
                /\ (\E i \in McQualified : McExact(mc.coll[i])) => McExact(r)
                /\ \A j \in McQualified :
                     McExact(mc.coll[j]) = McExact(r) =>
                       /\ McShortest(r) <= McShortest(mc.coll[j])
                       /\ McShortest(r) = McShortest(mc.coll[j]) =>
                            localeCompare(r.name, mc.coll[j].name) <= 0

\* An exact match that is longer than a candidate that only prefix-matches
\* was returned.
C3_Witness ==
  /\ mc.done
  /\ mc.result # <<>>
  /\ McExact(mc.result[1])
  /\ \E j \in McQualified :
       /\ ~McExact(mc.coll[j])
       /\ McShortest(mc.coll[j]) < McShortest(mc.result[1])

(***************************************************************************)
(* processParameters                                                       *)
(***************************************************************************)
\* collection.find((x) => x.id === id): <<>> for undefined, else <<element>>.
FindById(collection, id) ==
  LET hits == SelectSeq(collection, LAMBDA x : x.id = id)
  IN  IF hits = <<>> THEN <<>> ELSE <<hits[1]>>

\* project.teams?.nodes?.some((team) => team.id === teamId)
OwnedBy(project, teamId) == \E i \in DOMAIN project.teams : project.teams[i] = teamId

\* The initial value of results.
EmptyResults(paramWords) ==
  [teamId |-> Null, projectId |-> Null, assigneeId |-> Null, priorityId |-> NoNum,
   teamName |-> <<>>, projectName |-> <<>>, assigneeName |-> <<>>,
   priorityLabel |-> <<>>, unmatched |-> paramWords]

\* setters[key](match)
Setter(results, key, match) ==
  CASE key = "teams" ->
         [results EXCEPT !.teamId = match.id, !.teamName = match.name]
    [] key = "projects" ->
         [results EXCEPT !.projectId = match.id, !.projectName = match.name]
    [] key = "users" ->
         [results EXCEPT !.assigneeId = match.id,
                         !.assigneeName = IF TruthyStr(match.displayName)
                                          THEN match.displayName ELSE match.name]
    [] key = "priorities" ->
         [results EXCEPT !.priorityId = Num(match.id), !.priorityLabel = match.label]

\* The project pass without the team filter; used only to show that the
\* ownership theorem depends on the filter.
UnfilteredProjects(results, metadata) == metadata.projects

\* The candidates of the project pass: filtered by team if teamId is set.
FilteredProjects(results, metadata) ==
  SelectSeq(metadata.projects,
            LAMBDA project : results.teamId = Null \/ OwnedBy(project, results.teamId))

\* The match of one word in the pass of one kind.
MatchWord(results, key, word, metadata) ==
  CASE key = "projects" ->
         findBestMatch(word, FilteredProjects(results, metadata), "projects")
    [] key = "teams"      -> findBestMatch(word, metadata.teams, "teams")
    [] key = "users"      -> findBestMatch(word, metadata.users, "users")
    [] key = "priorities" -> findBestMatch(word, priorities, "priorities")

\* A splice that removes nothing; used only to show that the theorem on the
\* removed occurrences depends on the splice.
SpliceNothing(seq, i) == seq

\* results.unmatched.splice(i, 1)
Splice(seq, i) == SubSeq(seq, 1, i - 1) \o SubSeq(seq, i + 1, Len(seq))

\* The state of the loops: results and, beside it, what the loops do not keep
\* but an observer of them sees: for each word of results.unmatched its
\* position in paramWords (origin), and the calls of findBestMatch made so far,
\* each with the position of the word it was given, the kind, and whether it
\* returned a match.
InitialScan(paramWords) ==
  [results |-> EmptyResults(paramWords),
   origin  |-> [i \in 1..Len(paramWords) |-> i],
   calls   |-> <<>>]

\* An inner loop that scans from the first word to the last, i counting the
\* words still to scan; used only to show that the theorem on the matcher
\* calls depends on the direction of the scan.
RECURSIVE ScanWordsForward(_, _, _, _)
ScanWordsForward(st, key, i, metadata) ==
  IF i < 1 THEN st
  ELSE LET at    == Len(st.results.unmatched) - i + 1
           match == MatchWord(st.results, key, st.results.unmatched[at], metadata)
       IN  IF match # <<>>
           THEN [results |-> [Setter(st.results, key, match[1]) EXCEPT
                                !.unmatched = Splice(st.results.unmatched, at)],
                 origin  |-> Splice(st.origin, at),
                 calls   |-> Append(st.calls, [token |-> st.origin[at], key |-> key,
                                               hit |-> TRUE])]
           ELSE ScanWordsForward([st EXCEPT !.calls =
                                    Append(@, [token |-> st.origin[at], key |-> key,
                                               hit |-> FALSE])],
                                 key, i - 1, metadata)

\* The inner loop, for (let i = results.unmatched.length - 1; i >= 0; i--),
\* with i counted from 1.
RECURSIVE ScanWords(_, _, _, _)
ScanWords(st, key, i, metadata) ==
  IF i < 1 THEN st
  ELSE LET match == MatchWord(st.results, key, st.results.unmatched[i], metadata)
       IN  IF match # <<>>
           THEN [results |-> [Setter(st.results, key, match[1]) EXCEPT
                                !.unmatched = Splice(st.results.unmatched, i)],
                 origin  |-> Splice(st.origin, i),
                 calls   |-> Append(st.calls, [token |-> st.origin[i], key |-> key,
                                               hit |-> TRUE])]
           ELSE ScanWords([st EXCEPT !.calls =
                             Append(@, [token |-> st.origin[i], key |-> key,
                                        hit |-> FALSE])],
                          key, i - 1, metadata)

\* A processing order that takes users before priorities; used only to show
\* that the precedence theorem depends on the order.
UsersFirstOrder == <<"users", "priorities", "teams", "projects">>

processingOrder == <<"priorities", "users", "teams", "projects">>

\* for (const key of processingOrder)
RECURSIVE ProcessKeys(_, _, _)
ProcessKeys(st, k, metadata) ==
  IF k > Len(processingOrder) THEN st
  ELSE ProcessKeys(ScanWords(st, processingOrder[k],
                             Len(st.results.unmatched), metadata),
                   k + 1, metadata)

processParameters(paramWords, metadata) ==
  ProcessKeys(InitialScan(paramWords), 1, metadata).results

\* The calls of findBestMatch that processParameters makes, in their order.
matcherCalls(paramWords, metadata) ==
  ProcessKeys(InitialScan(paramWords), 1, metadata).calls

(***************************************************************************)
(* applyDefaultPreferences                                                 *)
(***************************************************************************)
IsMember(team) == \E i \in DOMAIN team.members : team.members[i].isMe

\* metadata.teams?.filter(isMe).sort(by createdAt)[0]?.id; the sort is stable.
DefaultTeamID(metadata) ==
  LET mine == SelectSeq(metadata.teams, IsMember)
  IN  IF mine = <<>> THEN Null
      ELSE LET first == CHOOSE i \in DOMAIN mine :
                          /\ \A j \in DOMAIN mine : mine[i].createdAt <= mine[j].createdAt
                          /\ \A j \in 1..(i - 1) : mine[j].createdAt > mine[i].createdAt
           IN  mine[first].id

\* The team/project fallbacks (the first if / else if and the default team).
TeamProjectFallback(params, metadata) ==
  LET r1 ==
        IF params.teamId = Null /\ params.projectId = Null
        THEN [params EXCEPT !.projectId = metadata.projectsChoice,
                            !.teamId = metadata.teamsChoice]
        ELSE IF params.teamId = Null /\ params.projectId # Null
        THEN LET project == FindById(metadata.projects, params.projectId)
             IN  IF project # <<>> /\ Len(project[1].teams) > 0
                 THEN [params EXCEPT !.teamId = project[1].teams[1]]
                 ELSE [params EXCEPT !.teamId = metadata.teamsChoice]
        ELSE params
  IN  IF r1.teamId = Null /\ r1.projectId = Null /\ DefaultTeamID(metadata) # Null
      THEN [r1 EXCEPT !.teamId = DefaultTeamID(metadata)]
      ELSE r1

\* The assignee and priority fallbacks.
ChoiceFallback(r, metadata) ==
  [r EXCEPT !.assigneeId = IF r.assigneeId = Null THEN metadata.usersChoice ELSE @,
            !.priorityId = IF r.priorityId = NoNum THEN metadata.prioritiesChoice ELSE @]

\* "Look up names for IDs from defaults".
LookupNames(r, metadata) ==
  LET team     == FindById(metadata.teams, r.teamId)
      project  == FindById(metadata.projects, r.projectId)
      user     == FindById(metadata.users, r.assigneeId)
      priority == IF r.priorityId = NoNum THEN <<>>
                  ELSE FindById(priorities, r.priorityId[1])
  IN  [r EXCEPT
         !.teamName = IF r.teamId # Null /\ ~TruthyStr(r.teamName) /\ team # <<>>
                      THEN team[1].name ELSE @,
         !.projectName = IF r.projectId # Null /\ ~TruthyStr(r.projectName)
                            /\ project # <<>>
                         THEN project[1].name ELSE @,
         !.assigneeName = IF r.assigneeId # Null /\ ~TruthyStr(r.assigneeName)
                             /\ user # <<>>
                          THEN IF TruthyStr(user[1].displayName)
                               THEN user[1].displayName ELSE user[1].name
                          ELSE @,
         !.priorityLabel = IF r.priorityId # NoNum /\ priority # <<>>
                           THEN priority[1].label ELSE @]

applyDefaultPreferences(params, metadata) ==
  LookupNames(ChoiceFallback(TeamProjectFallback(params, metadata), metadata),
              metadata)

(***************************************************************************)
(* parseInput, the title and validateTitle                                 *)
(***************************************************************************)
RECURSIVE TrimStart(_)
TrimStart(s) ==
  IF s # <<>> /\ Head(s) \in WhiteSpace THEN TrimStart(Tail(s)) ELSE s

RECURSIVE TrimEnd(_)
TrimEnd(s) ==
  IF s # <<>> /\ s[Len(s)] \in WhiteSpace THEN TrimEnd(SubSeq(s, 1, Len(s) - 1))
  ELSE s

\* String.prototype.trim
Trim(s) == TrimEnd(TrimStart(s))

\* input.replace(/^\s*ln\s*/, "")
StripCommand(input) ==
  LET t == TrimStart(input)
  IN  IF startsWith(t, <<"l","n">>) THEN TrimStart(SubSeq(t, 3, Len(t)))
      ELSE input

\* String.prototype.split(" "): the empty string splits into one empty word.
RECURSIVE SplitOnSpace(_, _)
SplitOnSpace(s, word) ==
  IF s = <<>> THEN <<word>>
  ELSE IF Head(s) = " " THEN <<word>> \o SplitOnSpace(Tail(s), <<>>)
  ELSE SplitOnSpace(Tail(s), word \o <<Head(s)>>)

IsParamWord(word) == startsWith(word, <<"-">>) /\ Len(word) > 1

parseInput(input) ==
  LET inputWords == SplitOnSpace(StripCommand(input), <<>>)
  IN  [paramWords |-> SelectSeq(inputWords, IsParamWord),
       titleWords |-> SelectSeq(inputWords, LAMBDA w : ~IsParamWord(w))]

\* Array.prototype.join(" ")
RECURSIVE Join(_)
Join(words) ==
  IF words = <<>> THEN <<>>
  ELSE IF Len(words) = 1 THEN words[1]
  ELSE words[1] \o <<" ">> \o Join(Tail(words))

\* titleWords.unshift(...params.unmatched); titleWords.map(trim).join(" ")
BuildTitle(unmatched, titleWords) ==
  LET all == unmatched \o titleWords
  IN  Join([i \in 1..Len(all) |-> Trim(all[i])])

\* title.trim().split(/\s+/).length
RECURSIVE CountRuns(_, _)
CountRuns(s, inSpace) ==
  IF s = <<>> THEN 0
  ELSE IF Head(s) \in WhiteSpace
       THEN (IF inSpace THEN 0 ELSE 1) + CountRuns(Tail(s), TRUE)
       ELSE CountRuns(Tail(s), FALSE)

WordCount(title) == 1 + CountRuns(Trim(title), FALSE)

MsgNoTitle == "Please provide a title"

MsgOneWord == "Please provide a more descriptive title with multiple words"

validateTitle(title) ==
  IF title = <<>> THEN [valid |-> FALSE, message |-> MsgNoTitle]
  ELSE IF WordCount(title) = 1 THEN [valid |-> FALSE, message |-> MsgOneWord]
  ELSE [valid |-> TRUE, message |-> "null"]

(***************************************************************************)
(* The metadata the Linear API returns in the model                        *)
(***************************************************************************)
TeamEng ==
  [id |-> "t1", name |-> <<"E","n","g">>, key |-> <<"E","N","G">>, createdAt |-> 2,
   members |-> << [id |-> "u1", isMe |-> TRUE], [id |-> "u2", isMe |-> FALSE] >>]

TeamWeb ==
  [id |-> "t2", name |-> <<"W","e","b">>, key |-> <<"W","E","B">>, createdAt |-> 1,
   members |-> << [id |-> "u2", isMe |-> FALSE] >>]

ProjApp == [id |-> "p1", name |-> <<"A","p","p">>, teams |-> <<"t1">>]

ProjApi == [id |-> "p2", name |-> <<"A","p","i">>, teams |-> <<"t2">>]

\* A project no team owns.
ProjExt == [id |-> "p3", name |-> <<"E","x","t">>, teams |-> <<>>]

UserUma ==
  [id |-> "u1", name |-> <<"U","m","a">>, displayName |-> <<>>,
   email |-> <<"u","m","@","x">>, isMe |-> TRUE]

UserHal ==
  [id |-> "u2", name |-> <<"H","a","l">>, displayName |-> <<"H","a","l","_","9">>,
   email |-> <<>>, isMe |-> FALSE]

RemoteTeams == <<TeamEng, TeamWeb>>

RemoteProjects == <<ProjApp, ProjApi, ProjExt>>

RemoteUsers == <<UserUma, UserHal>>

(***************************************************************************)
(* SpecResolve: processParameters and applyDefaultPreferences on bounded   *)
(* lists of flag tokens                                                    *)
(***************************************************************************)
MaxTokens == 3

TokenPool ==
  { <<"-","h">>, <<"-","u">>, <<"-","e">>, <<"-","w">>, <<"-","a","p">>,
    <<"-","a","p","i">>, <<"-","e","x">>, <<"-","z","z">> }

\* The persisted choices a metadata snapshot may carry.
ChoicePool ==
  { [teamsChoice |-> Null, projectsChoice |-> Null, usersChoice |-> Null,
     prioritiesChoice |-> NoNum],
    [teamsChoice |-> "t2", projectsChoice |-> "p2", usersChoice |-> "u2",
     prioritiesChoice |-> Num(3)],
    [teamsChoice |-> "t1", projectsChoice |-> Null, usersChoice |-> Null,
     prioritiesChoice |-> Num(0)],
    [teamsChoice |-> Null, projectsChoice |-> "p3", usersChoice |-> "u1",
     prioritiesChoice |-> NoNum] }

ResolveMetadata ==
  { [teams |-> RemoteTeams, projects |-> RemoteProjects, users |-> RemoteUsers,
     teamsChoice |-> c.teamsChoice, projectsChoice |-> c.projectsChoice,
     usersChoice |-> c.usersChoice, prioritiesChoice |-> c.prioritiesChoice]
    : c \in ChoicePool }

InitResolve ==
  /\ mc = [done |-> TRUE]
  /\ ps = IdleParse
  /\ RunsOff
  /\ rs \in [pc : {"start"}, tokens : SeqsUpTo(TokenPool, MaxTokens),
             metadata : ResolveMetadata,
             params : {EmptyResults(<<>>)}, calls : {<<>>},
             final : {EmptyResults(<<>>)}, title : {<<>>}]

\* const params = processParameters(paramWords, metadata)
Resolve ==
  /\ rs.pc = "start"
  /\ rs' = [rs EXCEPT !.pc = "resolved",
                      !.params = processParameters(rs.tokens, rs.metadata),
                      !.calls = matcherCalls(rs.tokens, rs.metadata)]
  /\ UNCHANGED <<mc, ps, runVars>>

\* The title words that follow the flag tokens in the runs of SpecResolve.
ResolveTitleWords == << <<"f","i","x">>, <<"b","u","g">> >>

\* const finalParams = applyDefaultPreferences(params, metadata), and the title
\* that processWorkflow builds next.
ApplyDefaults ==
  /\ rs.pc = "resolved"
  /\ rs' = [rs EXCEPT !.pc = "defaulted",
                      !.final = applyDefaultPreferences(rs.params, rs.metadata),
                      !.title = BuildTitle(rs.params.unmatched, ResolveTitleWords)]
  /\ UNCHANGED <<mc, ps, runVars>>

NextResolve == Resolve \/ ApplyDefaults

SpecResolve == InitResolve /\ [][NextResolve]_vars

\* C2: applyDefaultPreferences leaves unchanged each field that
\* processParameters resolved explicitly: for team, project, assignee and
\* priority, the identifier and the display name of the output equal those of
\* the input whenever the input identifier was set.
C2_ExplicitFieldsUnchanged ==
  rs.pc = "defaulted" =>
    /\ rs.params.teamId # Null =>
         /\ rs.final.teamId = rs.params.teamId
         /\ rs.final.teamName = rs.params.teamName
    /\ rs.params.projectId # Null =>
         /\ rs.final.projectId = rs.params.projectId
         /\ rs.final.projectName = rs.params.projectName
    /\ rs.params.assigneeId # Null =>
         /\ rs.final.assigneeId = rs.params.assigneeId
         /\ rs.final.assigneeName = rs.params.assigneeName
    /\ rs.params.priorityId # NoNum =>
         /\ rs.final.priorityId = rs.params.priorityId
         /\ rs.final.priorityLabel = rs.params.priorityLabel

\* The strings of an entity that a search term may match, per kind.
RsStrings(key, item) ==
  CASE key = "projects"   -> {item.name}
    [] key = "teams"      -> {item.name, item.key}
    [] key = "users"      -> {item.name, item.displayName, EmailLocalPart(item.email)}
    [] key = "priorities" -> {item.label}

RsCollection(key) ==
  CASE key = "projects"   -> rs.metadata.projects
    [] key = "teams"      -> rs.metadata.teams
    [] key = "users"      -> rs.metadata.users
    [] key = "priorities" -> priorities

\* The entities of a kind that a token can match; a project only if no team is
\* given or the team is among its owners.
RsEligible(key, word, teamId) ==
  { i \in DOMAIN RsCollection(key) :
      /\ \E str \in RsStrings(key, RsCollection(key)[i]) \ {<<>>} :
           startsWith(sanitise(str), sanitise(Substring1(word)))
      /\ key = "projects" /\ teamId # Null =>
           \E j \in DOMAIN RsCollection(key)[i].teams :
             RsCollection(key)[i].teams[j] = teamId }

\* C4: whenever a team has been resolved from a token, the project pass
\* resolves only a project owned by that team, and a token that matches only
\* projects of other teams stays unmatched.
C4_ProjectOwnedByResolvedTeam ==
  (rs.pc # "start" /\ rs.params.teamId # Null) =>
    /\ rs.params.projectId # Null =>
         \E i \in DOMAIN rs.metadata.projects :
           /\ rs.metadata.projects[i].id = rs.params.projectId
           /\ \E j \in DOMAIN rs.metadata.projects[i].teams :
                rs.metadata.projects[i].teams[j] = rs.params.teamId
    /\ \A i \in DOMAIN rs.tokens :
         ( /\ RsEligible("projects", rs.tokens[i], Null) # {}
           /\ RsEligible("projects", rs.tokens[i], rs.params.teamId) = {}
           /\ \A key \in {"priorities", "users", "teams"} :
                RsEligible(key, rs.tokens[i], Null) = {} )
         => \E j \in DOMAIN rs.params.unmatched :
              rs.params.unmatched[j] = rs.tokens[i]

\* A team and one of its projects were resolved while a token that matches
\* only another team's project was left unmatched.
C4_Witness ==
  /\ rs.pc = "resolved"
  /\ rs.params.teamId # Null
  /\ rs.params.projectId # Null
  /\ \E j \in DOMAIN rs.params.unmatched :
       /\ RsEligible("projects", rs.params.unmatched[j], Null) # {}
       /\ RsEligible("projects", rs.params.unmatched[j], rs.params.teamId) = {}

\* The last token, among those at the indices R, that can match the kind.
RsLast(key, R, teamId) ==
  LET hits == { i \in R : RsEligible(key, rs.tokens[i], teamId) # {} }
  IN  IF hits = {} THEN 0 ELSE CHOOSE i \in hits : \A j \in hits : j <= i

RsAll == DOMAIN rs.tokens

RsPriorityToken == RsLast("priorities", RsAll, Null)

\* The tokens at the indices R, in their order.
RECURSIVE RsTokensAt(_, _)
RsTokensAt(i, R) ==
  IF i > Len(rs.tokens) THEN <<>>
  ELSE (IF i \in R THEN <<rs.tokens[i]>> ELSE <<>>) \o RsTokensAt(i + 1, R)

\* C10: each kind consumes at most one token, the one occurring last among the
\* remaining tokens that can match the kind; the kinds are processed in the
\* order priority, assignee, team, project.
C10_LastTokenPerKindInOrder ==
  rs.pc # "start" =>
    LET iP  == RsPriorityToken
        iU  == RsLast("users", RsAll \ {iP}, Null)
        iT  == RsLast("teams", RsAll \ {iP, iU}, Null)
        tid == IF iT = 0 THEN Null
               ELSE findBestMatch(rs.tokens[iT], rs.metadata.teams, "teams")[1].id
        iJ  == RsLast("projects", RsAll \ {iP, iU, iT}, tid)
        left == RsAll \ {iP, iU, iT, iJ}
    IN  /\ rs.params.priorityId # NoNum <=> iP # 0
        /\ iP # 0 =>
             rs.params.priorityId =
               Num(findBestMatch(rs.tokens[iP], priorities, "priorities")[1].id)
        /\ rs.params.assigneeId # Null <=> iU # 0
        /\ iU # 0 =>
             rs.params.assigneeId =
               findBestMatch(rs.tokens[iU], rs.metadata.users, "users")[1].id
        /\ rs.params.teamId = tid
        /\ rs.params.projectId # Null <=> iJ # 0
        /\ iJ # 0 =>
             rs.params.projectId \in
               { rs.metadata.projects[i].id :
                   i \in RsEligible("projects", rs.tokens[iJ], tid) }
        /\ rs.params.unmatched = RsTokensAt(1, left)

\* Two tokens could be the priority, the later one could also be a user, and it
\* was consumed as the priority.
C10_Witness ==
  /\ rs.pc = "resolved"
  /\ \E i, j \in RsAll :
       /\ i < j
       /\ j = RsPriorityToken
       /\ RsEligible("priorities", rs.tokens[i], Null) # {}
       /\ RsEligible("users", rs.tokens[j], Null) # {}
       /\ rs.tokens[i] # rs.tokens[j]
       /\ rs.params.assigneeId # Null

\* How often the text w occurs in a list of words.
RsCount(w, words) == Cardinality({ i \in DOMAIN words : words[i] = w })

RsTexts == { rs.tokens[i] : i \in DOMAIN rs.tokens }

\* The occurrences of the text w that processParameters took out of the list.
RsRemoved(w) == RsCount(w, rs.tokens) - RsCount(w, rs.params.unmatched)

\* The number of fields that processParameters resolved.
RsFieldsSet ==
  (IF rs.params.priorityId # NoNum THEN 1 ELSE 0)
  + (IF rs.params.assigneeId # Null THEN 1 ELSE 0)
  + (IF rs.params.teamId # Null THEN 1 ELSE 0)
  + (IF rs.params.projectId # Null THEN 1 ELSE 0)

\* The words of the title built from the unmatched tokens and the title words.
RsTitle == SplitOnSpace(rs.title, <<>>)

RECURSIVE IsSubsequence(_, _)
IsSubsequence(a, b) ==
  IF a = <<>> THEN TRUE
  ELSE IF b = <<>> THEN FALSE
  ELSE IF Head(a) = Head(b) THEN IsSubsequence(Tail(a), Tail(b))
  ELSE IsSubsequence(a, Tail(b))

\* The text w matches the entity of the kind that has the identifier id.
RsMatches(key, w, id, teamId) ==
  \E i \in RsEligible(key, w, teamId) : RsCollection(key)[i].id = id

\* C11 (as claimed): for every list of flag tokens, lists in which the same
\* token text occurs more than once included, the result of processParameters
\* never has a field resolved from a token while that token remains in the
\* unmatched list, and a token that set a field never appears in the title
\* that processWorkflow builds.
C11_ResolvingTokenNotUnmatched ==
  rs.pc # "start" =>
    \A w \in RsTexts :
      RsRemoved(w) > 0 =>
        /\ RsCount(w, rs.params.unmatched) = 0
        /\ rs.pc = "defaulted" => RsCount(w, RsTitle) = 0

\* C11 (amended): processParameters takes out of the unmatched list exactly
\* one occurrence for each field it resolves, an occurrence of a text that
\* matches the resolved entity, and leaves the other tokens in their order; a
\* further occurrence of the same text may remain, and the title begins with
\* exactly the tokens that remain.
C11_OneOccurrencePerResolvedField ==
  rs.pc # "start" =>
    /\ IsSubsequence(rs.params.unmatched, rs.tokens)
    /\ Len(rs.tokens) - Len(rs.params.unmatched) = RsFieldsSet
    /\ rs.params.priorityId # NoNum =>
         \E w \in RsTexts : /\ RsRemoved(w) > 0
                            /\ RsMatches("priorities", w, rs.params.priorityId[1], Null)
    /\ rs.params.assigneeId # Null =>
         \E w \in RsTexts : /\ RsRemoved(w) > 0
                            /\ RsMatches("users", w, rs.params.assigneeId, Null)
    /\ rs.params.teamId # Null =>
         \E w \in RsTexts : /\ RsRemoved(w) > 0
                            /\ RsMatches("teams", w, rs.params.teamId, Null)
    /\ rs.params.projectId # Null =>
         \E w \in RsTexts : /\ RsRemoved(w) > 0
                            /\ RsMatches("projects", w, rs.params.projectId,
                                         rs.params.teamId)
    /\ rs.pc = "defaulted" => RsTitle = rs.params.unmatched \o ResolveTitleWords

\* The same text was given twice: one occurrence resolved a field, the other
\* stayed unmatched and is in the title.
C11_Witness ==
  /\ rs.pc = "defaulted"
  /\ \E w \in RsTexts :
       /\ RsRemoved(w) = 1
       /\ RsCount(w, rs.params.unmatched) = 1
       /\ RsCount(w, RsTitle) = 1

\* The kinds in the order of their passes.
RsOrder == <<"priorities", "users", "teams", "projects">>

\* The token at position i was submitted to the matcher of the kind numbered k.
RsTried(i, k) ==
  \E c \in DOMAIN rs.calls : rs.calls[c].token = i /\ rs.calls[c].key = RsOrder[k]

\* ... and the matcher returned a match.
RsHit(i, k) ==
  \E c \in DOMAIN rs.calls :
    rs.calls[c].token = i /\ rs.calls[c].key = RsOrder[k] /\ rs.calls[c].hit

\* C12 (as claimed): a token that fails to match in the pass of one kind is
\* never attempted against a different kind: each flag token is submitted to
\* the matcher of at most one kind during a resolution.
C12_AtMostOneKindPerToken ==
  rs.pc # "start" =>
    \A i \in DOMAIN rs.tokens :
      Cardinality({ k \in DOMAIN RsOrder : RsTried(i, k) }) <= 1

\* C12 (amended): a token that fails to match in the pass of one kind stays
\* in the list and is submitted to the matcher of every later kind whose scan
\* reaches it, until a kind resolves it: the pass of a kind submits the
\* remaining tokens from the last backwards and stops at its first match.  A
\* token is submitted to the matcher of one kind at most once, a resolved
\* token to no later kind, and the tokens left unmatched are those that no
\* kind resolved.
C12_RetriedByLaterKinds ==
  rs.pc # "start" =>
    /\ \A i \in DOMAIN rs.tokens, k \in DOMAIN RsOrder :
         RsTried(i, k) <=>
           /\ \A k0 \in 1..(k - 1) : ~RsHit(i, k0)
           /\ \A j \in DOMAIN rs.tokens : j > i => ~RsHit(j, k)
    /\ \A c, d \in DOMAIN rs.calls :
         (rs.calls[c].token = rs.calls[d].token /\ rs.calls[c].key = rs.calls[d].key)
           => c = d
    /\ rs.params.unmatched =
         RsTokensAt(1, { i \in DOMAIN rs.tokens :
                           \A k \in DOMAIN RsOrder : ~RsHit(i, k) })

\* A token failed to match as a priority and as a user and was then resolved
\* as a team, while another token failed in all four passes.
C12_Witness ==
  /\ rs.pc = "resolved"
  /\ \E i, j \in DOMAIN rs.tokens :
       /\ RsTried(i, 1) /\ RsTried(i, 2) /\ RsHit(i, 3)
       /\ \A k \in DOMAIN RsOrder : RsTried(j, k) /\ ~RsHit(j, k)

(***************************************************************************)
(* SpecParse: parseInput, the title and validateTitle, as processWorkflow  *)
(* applies them to an input string                                         *)
(***************************************************************************)
MaxInputLen == 5

InputChars == {"l", "n", " ", "-", "a"}

\* The metadata of a first run: the fetched lists and no persisted choice.
FetchedMetadata ==
  [teams |-> RemoteTeams, projects |-> RemoteProjects, users |-> RemoteUsers,
   teamsChoice |-> Null, projectsChoice |-> Null, usersChoice |-> Null,
   prioritiesChoice |-> NoNum]

InitParse ==
  /\ mc = [done |-> TRUE]
  /\ rs = IdleResolve
  /\ RunsOff
  /\ ps \in [pc : {"start"}, input : SeqsUpTo(InputChars, MaxInputLen),
             paramWords : {<<>>}, titleWords : {<<>>}, title : {<<>>},
             titleValidation : {[valid |-> FALSE, message |-> "null"]}]

\* const { paramWords, titleWords } = parseInput(input)
ParseInput ==
  /\ ps.pc = "start"
  /\ ps' = [ps EXCEPT !.pc = "parsed",
                      !.paramWords = parseInput(ps.input).paramWords,
                      !.titleWords = parseInput(ps.input).titleWords]
  /\ UNCHANGED <<mc, rs, runVars>>

\* processWorkflow from processParameters to validateTitle.
PrepareTitle ==
  /\ ps.pc = "parsed"
  /\ LET params == processParameters(ps.paramWords, FetchedMetadata)
         title  == BuildTitle(params.unmatched, ps.titleWords)
     IN  ps' = [ps EXCEPT !.pc = "validated",
                          !.title = title,
                          !.titleValidation = validateTitle(title)]
  /\ UNCHANGED <<mc, rs, runVars>>

NextParse == ParseInput \/ PrepareTitle

SpecParse == InitParse /\ [][NextParse]_vars

\* The words of the input: what single spaces separate.
PsWords == SplitOnSpace(ps.input, <<>>)

PsFirstWord ==
  LET nonEmpty == SelectSeq(PsWords, LAMBDA w : w # <<>>)
  IN  IF nonEmpty = <<>> THEN <<>> ELSE nonEmpty[1]

\* C5: parseInput strips a leading command name only when it is a whole
\* leading token: if the first word of the input is not exactly "ln", the first
\* word and every other word are kept unaltered, each in its group, in their
\* original order.
C5_OnlyWholeCommandStripped ==
  (ps.pc # "start" /\ PsFirstWord # <<"l","n">>) =>
    /\ ps.paramWords = SelectSeq(PsWords, IsParamWord)
    /\ ps.titleWords = SelectSeq(PsWords, LAMBDA w : ~IsParamWord(w))

\* The number of words of a title: its maximal runs of non-white-space.
PsWordsIn(title) ==
  Cardinality({ i \in DOMAIN title :
                  /\ title[i] \notin WhiteSpace
                  /\ (i = 1 \/ title[i - 1] \in WhiteSpace) })

\* C6: validateTitle answers "Please provide a title" for a title that is
\* empty or only white space, "Please provide a more descriptive title with
\* multiple words" for a title of exactly one word, and valid for a title of
\* two or more words, for every title processWorkflow builds.
C6_TitleValidation ==
  ps.pc = "validated" =>
    /\ PsWordsIn(ps.title) = 0 =>
         ps.titleValidation = [valid |-> FALSE, message |-> MsgNoTitle]
    /\ PsWordsIn(ps.title) = 1 =>
         ps.titleValidation = [valid |-> FALSE, message |-> MsgOneWord]
    /\ PsWordsIn(ps.title) >= 2 => ps.titleValidation.valid

(***************************************************************************)
(* The preference file: readPrefs, writePrefs, getMetadata                 *)
(*                                                                         *)
(* A preferences (or metadata) object is a record of the keys the code     *)
(* reads; a key that is absent has the value that stands for undefined.    *)
(* The key "priorities" that getMetadata adds is never read and is left    *)
(* out.  JSON.stringify and JSON.parse keep every value of this encoding.  *)
(***************************************************************************)
NoError == "none"

\* The object {} that readPrefs returns when there is no readable file.
EmptyObject ==
  [error |-> NoError, teams |-> <<>>, projects |-> <<>>, users |-> <<>>,
   teamsChoice |-> Null, projectsChoice |-> Null, usersChoice |-> Null,
   prioritiesChoice |-> NoNum,
   teamsChoiceTimestamp |-> NoNum, projectsChoiceTimestamp |-> NoNum,
   usersChoiceTimestamp |-> NoNum, prioritiesChoiceTimestamp |-> NoNum]

\* readPrefs(): f is <<>> when the file is missing or unreadable, else
\* <<the object written last>>; the three lists default to [].
readPrefs(f) == IF f = <<>> THEN EmptyObject ELSE f[1]

\* What the request of getMetadata can end in.
FetchOutcomes == {"ok", "okNoProjects", "notOk", "networkError"}

\* getMetadata(linearToken): the object it resolves to.
getMetadata(linearToken, outcome) ==
  IF ~linearToken THEN [EmptyObject EXCEPT !.error = "LINEAR_API_KEY is not set"]
  ELSE CASE outcome = "ok" ->
              [EmptyObject EXCEPT !.teams = RemoteTeams,
                                  !.projects = RemoteProjects,
                                  !.users = RemoteUsers]
         [] outcome = "okNoProjects" ->
              [EmptyObject EXCEPT !.teams = RemoteTeams, !.users = RemoteUsers]
         [] outcome = "notOk" ->
              [EmptyObject EXCEPT !.error = "Failed to fetch metadata from Linear API"]
         [] outcome = "networkError" ->
              [EmptyObject EXCEPT !.error = "fetch failed"]

\* writePrefs(prefs): prefsWithTimestamps, which it writes and returns; dateNow is
\* Date.now().
writePrefs(prefs, dateNow) ==
  [prefs EXCEPT
     !.prioritiesChoice = IF TruthyNum(prefs.prioritiesChoice) THEN @ ELSE NoNum,
     !.teamsChoiceTimestamp =
        IF prefs.teamsChoice # Null THEN Num(dateNow)
        ELSE IF TruthyNum(prefs.teamsChoiceTimestamp) THEN @ ELSE NoNum,
     !.projectsChoiceTimestamp =
        IF prefs.projectsChoice # Null THEN Num(dateNow)
        ELSE IF TruthyNum(prefs.projectsChoiceTimestamp) THEN @ ELSE NoNum,
     !.usersChoiceTimestamp =
        IF prefs.usersChoice # Null THEN Num(dateNow)
        ELSE IF TruthyNum(prefs.usersChoiceTimestamp) THEN @ ELSE NoNum,
     !.prioritiesChoiceTimestamp =
        IF TruthyNum(prefs.prioritiesChoice) THEN Num(dateNow)
        ELSE IF TruthyNum(prefs.prioritiesChoiceTimestamp) THEN @ ELSE NoNum]

\* A staleness test that forgets the projects; used only to show that the
\* two-path theorem depends on the test.
IsStaleIgnoringProjects(metadata) ==
  Len(metadata.teams) = 0 \/ Len(metadata.users) = 0

\* The test of getUnifiedMetadata: no cached metadata, or it is incomplete.
IsStale(metadata) ==
  Len(metadata.teams) = 0 \/ Len(metadata.projects) = 0 \/ Len(metadata.users) = 0

(***************************************************************************)
(* Spec: the runs of the command (main), one after the other, with the     *)
(* background refreshes they start                                         *)
(***************************************************************************)
MaxRuns == 2

\* process.argv[2] of a run: "", "fix bug", "bug", "ln -e fix bug",
\* "-n fix bug", "-ex -h fix bug", "-hal -app fix bug".
InputPool ==
  { <<>>,
    <<"f","i","x"," ","b","u","g">>,
    <<"b","u","g">>,
    <<"l","n"," ","-","e"," ","f","i","x"," ","b","u","g">>,
    <<"-","n"," ","f","i","x"," ","b","u","g">>,
    <<"-","e","x"," ","-","h"," ","f","i","x"," ","b","u","g">>,
    <<"-","h","a","l"," ","-","a","p","p"," ","f","i","x"," ","b","u","g">> }

NoChoices ==
  [teamId |-> Null, projectId |-> Null, assigneeId |-> Null, priorityId |-> NoNum]

\* The run before it has begun.
NoRun ==
  [credential |-> FALSE, input |-> <<>>, paramWords |-> <<>>, titleWords |-> <<>>,
   read |-> EmptyObject, path |-> "none", fetches |-> 0, bgStarted |-> 0,
   writes |-> <<>>, metadata |-> EmptyObject,
   params |-> EmptyResults(<<>>), explicitChoices |-> NoChoices,
   final |-> EmptyResults(<<>>), title |-> <<>>,
   titleValidation |-> [valid |-> FALSE, message |-> "null"],
   requests |-> 0, outcome |-> "none"]

Init ==
  /\ mc = [done |-> TRUE]
  /\ rs = IdleResolve
  /\ ps = IdleParse
  /\ file = <<>>
  /\ now = 0
  /\ pc = "idle"
  /\ run = NoRun
  /\ bg = 0
  /\ sent = <<>>

\* The process starts: the module throws without LINEAR_API_KEY; main returns
\* on a missing input; else processWorkflow parses the input and
\* getUnifiedMetadata reads the cache and either awaits getMetadata or starts
\* the background refresh and returns the cached metadata.
StartRun(credential, input) ==
  /\ pc = "idle"
  /\ now < MaxRuns
  /\ now' = now + 1
  /\ LET begun  == [NoRun EXCEPT !.credential = credential, !.input = input]
         parsed == parseInput(input)
         read   == readPrefs(file)
         inRun  == [begun EXCEPT !.paramWords = parsed.paramWords,
                                 !.titleWords = parsed.titleWords,
                                 !.read = read]
     IN  IF ~credential
         THEN /\ run' = [begun EXCEPT !.outcome = "LINEAR_API_KEY is not set"]
              /\ UNCHANGED <<pc, bg>>
         ELSE IF input = <<>>
         THEN /\ run' = [begun EXCEPT !.outcome = "Missing required input"]
              /\ UNCHANGED <<pc, bg>>
         ELSE IF IsStale(read)
         THEN /\ run' = [inRun EXCEPT !.path = "stale"]
              /\ pc' = "fetching"
              /\ UNCHANGED bg
         ELSE /\ run' = [inRun EXCEPT !.path = "fresh", !.metadata = read,
                                      !.bgStarted = @ + 1]
              /\ pc' = "resolving"
              /\ bg' = bg + 1
  /\ UNCHANGED <<file, sent, mc, rs, ps>>

\* A getUnifiedMetadata that returns the fetched metadata without writing it;
\* used only to show that the theorem on the writes of a run depends on that
\* write.
FetchDoneWithoutWrite(outcome) ==
  /\ pc = "fetching"
  /\ run' = [run EXCEPT !.metadata = getMetadata(run.credential, outcome),
                        !.fetches = @ + 1]
  /\ pc' = "resolving"
  /\ UNCHANGED <<file, now, bg, sent, mc, rs, ps>>

\* getMetadata resolves: getUnifiedMetadata writes its result and returns it.
FetchDone(outcome) ==
  /\ pc = "fetching"
  /\ LET metadata == getMetadata(run.credential, outcome)
         written  == writePrefs(metadata, now)
     IN  /\ file' = <<written>>
         /\ run' = [run EXCEPT !.metadata = metadata,
                               !.fetches = @ + 1,
                               !.writes = Append(@, [by |-> "getUnifiedMetadata",
                                                     value |-> written])]
  /\ pc' = "resolving"
  /\ UNCHANGED <<now, bg, sent, mc, rs, ps>>

\* The check of main that lets a run go on to writePrefs and
\* createIssueMutation, without the title validation; used only to show that
\* the no-request theorem depends on it.
ProceedsWithAnyTitle(metadata, titleValidation) == metadata.error = NoError

\* main goes on to writePrefs and createIssueMutation: the workflow returned no
\* error and the title is valid.
Proceeds(metadata, titleValidation) ==
  metadata.error = NoError /\ titleValidation.valid

\* The arguments main gives to createIssueMutation.
IssueRequest(finalParams, title) ==
  [teamId     |-> finalParams.teamId,
   projectId  |-> finalParams.projectId,
   assigneeId |-> finalParams.assigneeId,
   priority   |-> IF TruthyNum(finalParams.priorityId)
                  THEN finalParams.priorityId[1] ELSE 0,
   title      |-> title]

\* const explicitChoices = {...}
ExplicitChoices(params) ==
  [teamId |-> params.teamId, projectId |-> params.projectId,
   assigneeId |-> params.assigneeId, priorityId |-> params.priorityId]

\* What processWorkflow returns, given the title it has built.
WorkflowResult(params, finalParams, title) ==
  [params |-> params, explicitChoices |-> ExplicitChoices(params),
   final |-> finalParams, title |-> title,
   titleValidation |-> validateTitle(title)]

\* processWorkflow from processParameters on.
WorkflowOf(params, titleWords, metadata) ==
  WorkflowResult(params, applyDefaultPreferences(params, metadata),
                 BuildTitle(params.unmatched, titleWords))

\* The object main gives to writePrefs: the metadata with the explicit choices.
MainPrefs(metadata, explicitChoices) ==
  [metadata EXCEPT !.teamsChoice = explicitChoices.teamId,
                   !.projectsChoice = explicitChoices.projectId,
                   !.usersChoice = explicitChoices.assigneeId,
                   !.prioritiesChoice = explicitChoices.priorityId]

\* The rest of main once processWorkflow has returned w.
Finish(w, written) ==
  LET done == [run EXCEPT !.params = w.params,
                          !.explicitChoices = w.explicitChoices,
                          !.final = w.final,
                          !.title = w.title,
                          !.titleValidation = w.titleValidation]
  IN  IF ~Proceeds(run.metadata, w.titleValidation)
      THEN /\ run' = [done EXCEPT !.outcome = w.titleValidation.message]
           /\ pc' = "idle"
           /\ UNCHANGED <<file, sent>>
      ELSE /\ file' = <<written>>
           /\ sent' = Append(sent, IssueRequest(w.final, w.title))
           /\ run' = [done EXCEPT !.writes = Append(@, [by |-> "main",
                                                        value |-> written]),
                                  !.requests = @ + 1]
           /\ pc' = "creating"

\* The write of main for the workflow w.
FinishWriting(w) ==
  Finish(w, writePrefs(MainPrefs(run.metadata, w.explicitChoices), now))

\* The rest of processWorkflow and of main, up to the request that
\* createIssueMutation sends.
Process ==
  /\ pc = "resolving"
  /\ IF run.metadata.error # NoError
     THEN /\ run' = [run EXCEPT !.outcome = run.metadata.error]
          /\ pc' = "idle"
          /\ UNCHANGED <<file, sent>>
     ELSE FinishWriting(WorkflowOf(processParameters(run.paramWords, run.metadata),
                                   run.titleWords, run.metadata))
  /\ UNCHANGED <<now, bg, mc, rs, ps>>

\* The response to the issue-creation request arrives.
MutationDone(ok) ==
  /\ pc = "creating"
  /\ run' = [run EXCEPT !.outcome = IF ok THEN "created"
                                    ELSE "Failed to create the issue."]
  /\ pc' = "idle"
  /\ UNCHANGED <<file, now, bg, sent, mc, rs, ps>>

\* A background refresh (createLinearIssueCacheAsync) ends: on success it
\* replaces the entity lists of the persisted store, on failure it leaves the
\* store alone; the run that started it is not told.
BgRefreshDone(outcome) ==
  /\ bg > 0
  /\ bg' = bg - 1
  /\ LET fetched == getMetadata(TRUE, outcome)
     IN  file' = IF fetched.error # NoError THEN file
                 ELSE << [readPrefs(file) EXCEPT !.teams = fetched.teams,
                                                 !.projects = fetched.projects,
                                                 !.users = fetched.users] >>
  /\ UNCHANGED <<now, pc, run, sent, mc, rs, ps>>

Next ==
  \/ \E credential \in BOOLEAN, input \in InputPool : StartRun(credential, input)
  \/ \E outcome \in FetchOutcomes : FetchDone(outcome)
  \/ Process
  \/ \E ok \in BOOLEAN : MutationDone(ok)
  \/ \E outcome \in FetchOutcomes : BgRefreshDone(outcome)

Spec == Init /\ [][Next]_vars

\* The values that main's writePrefs wrote in the current run.
MainWrites ==
  { run.writes[i].value : i \in { j \in DOMAIN run.writes : run.writes[j].by = "main" } }

\* C1: the preference write of a run changes only the fields for which the run
\* made an explicit choice; every field for which the run made no explicit
\* choice keeps the value and the timestamp it had in the snapshot persisted
\* before (run.read, what the run read at its start).
C1_UnchosenFieldsKept ==
  \A v \in MainWrites :
    /\ run.explicitChoices.teamId = Null =>
         /\ v.teamsChoice = run.read.teamsChoice
         /\ v.teamsChoiceTimestamp = run.read.teamsChoiceTimestamp
    /\ run.explicitChoices.projectId = Null =>
         /\ v.projectsChoice = run.read.projectsChoice
         /\ v.projectsChoiceTimestamp = run.read.projectsChoiceTimestamp
    /\ run.explicitChoices.assigneeId = Null =>
         /\ v.usersChoice = run.read.usersChoice
         /\ v.usersChoiceTimestamp = run.read.usersChoiceTimestamp
    /\ run.explicitChoices.priorityId = NoNum =>
         /\ v.prioritiesChoice = run.read.prioritiesChoice
         /\ v.prioritiesChoiceTimestamp = run.read.prioritiesChoiceTimestamp

\* C7: writePrefs followed immediately by readPrefs returns teamsChoice,
\* projectsChoice, usersChoice and prioritiesChoice identical to the explicit
\* choices that were written, priority level 0 included.
C7_WriteReadRoundTrip ==
  \A v \in MainWrites :
    LET back == readPrefs(<<v>>)
    IN  /\ back.teamsChoice = run.explicitChoices.teamId
        /\ back.projectsChoice = run.explicitChoices.projectId
        /\ back.usersChoice = run.explicitChoices.assigneeId
        /\ back.prioritiesChoice = run.explicitChoices.priorityId

\* C8: an issue-creation request is sent only by a run that had the
\* credential and an input, obtained the metadata without error and built a
\* title of two or more words; a run that ends on a failure before the
\* mutation call has sent no request.
C8_RequestOnlyAfterChecks ==
  /\ run.requests > 0 =>
       /\ run.credential
       /\ run.input # <<>>
       /\ run.path # "none"
       /\ run.metadata.error = NoError
       /\ PsWordsIn(run.title) >= 2
  /\ run.outcome \notin {"none", "created", "Failed to create the issue."} =>
       run.requests = 0
  /\ \A i \in DOMAIN sent : PsWordsIn(sent[i].title) >= 2
  /\ Len(sent) <= now

\* An earlier run sent its request and the current run ended on an invalid
\* title without sending one.
C8_Witness ==
  /\ Len(sent) = 1
  /\ run.outcome = MsgOneWord
  /\ run.requests = 0

\* The cached lists that getUnifiedMetadata looks at, in the snapshot a run read.
C9CacheIncomplete ==
  \E list \in {run.read.teams, run.read.projects, run.read.users} : list = <<>>

\* C9: getUnifiedMetadata takes exactly one of two paths: with a missing or
\* empty cached list it awaits one fetch, persists its result before it
\* returns and starts no background refresh; otherwise it returns the cached
\* metadata without any fetch and starts exactly one background refresh, whose
\* end changes nothing of the run.
C9_TwoPaths ==
  /\ [](run.path # "none" =>
          IF C9CacheIncomplete
          THEN /\ run.path = "stale"
               /\ run.bgStarted = 0
               /\ pc = "fetching" => run.fetches = 0 /\ run.writes = <<>>
               /\ pc # "fetching" =>
                    /\ run.fetches = 1
                    /\ run.writes # <<>>
                    /\ run.writes[1].by = "getUnifiedMetadata"
                    /\ run.writes[1].value.error = run.metadata.error
                    /\ run.writes[1].value.teams = run.metadata.teams
                    /\ run.writes[1].value.projects = run.metadata.projects
                    /\ run.writes[1].value.users = run.metadata.users
          ELSE /\ run.path = "fresh"
               /\ run.fetches = 0
               /\ run.bgStarted = 1
               /\ run.metadata = run.read
               /\ \A i \in DOMAIN run.writes : run.writes[i].by = "main")
  /\ [][bg' < bg => run' = run /\ pc' = pc /\ sent' = sent]_vars

\* A run on the fresh path is about to resolve its parameters from the cached
\* metadata while a background refresh has already changed the file.
C9_Witness ==
  /\ pc = "resolving"
  /\ run.path = "fresh"
  /\ readPrefs(file).projects # run.metadata.projects

\* C13 (as claimed): in every invocation, on the fresh and on the stale path,
\* the main pipeline writes the preference file at most once, and after the
\* file was read at the start of the run.
C13_AtMostOneWrite ==
  /\ Len(run.writes) <= 1
  /\ run.writes # <<>> => run.path # "none"

\* C13 (amended): the main pipeline writes the preference file at most once on
\* the fresh path, by main, and at most twice on the stale path: first
\* getUnifiedMetadata writes the result of the fetch, then main writes it again
\* with the explicit choices; main writes exactly when the run goes on to the
\* issue-creation request, and every write comes after the read at the start.
C13_WritesPerPath ==
  /\ run.path = "none" => run.writes = <<>>
  /\ run.path = "fresh" =>
       /\ Len(run.writes) <= 1
       /\ \A i \in DOMAIN run.writes : run.writes[i].by = "main"
  /\ run.path = "stale" =>
       /\ Len(run.writes) <= 2
       /\ pc = "fetching" => run.writes = <<>>
       /\ pc # "fetching" =>
            /\ run.writes # <<>>
            /\ run.writes[1].by = "getUnifiedMetadata"
       /\ Len(run.writes) = 2 => run.writes[2].by = "main"
  /\ MainWrites # {} <=> run.requests = 1

\* A run on the stale path has written the file twice, with different contents.
C13_Witness ==
  /\ run.path = "stale"
  /\ Len(run.writes) = 2
  /\ run.writes[1].value # run.writes[2].value

\* C14: the preference file is created or overwritten only with the result of
\* a successful metadata fetch or with a snapshot read from a valid cache: a
\* run whose metadata fetch fails reports the error and writes nothing, so the
\* persisted store never holds the result of a failed fetch.
C14_FailedFetchLeavesStore ==
  /\ (run.fetches > 0 /\ run.metadata.error # NoError) =>
       /\ run.writes = <<>>
       /\ pc = "idle" => run.outcome = run.metadata.error
  /\ file # <<>> => file[1].error = NoError

\* C15: whenever a run reaches the issue-creation request with a project id
\* set, it also has a team id set, and that project is owned by that team.
C15_ProjectWithOwningTeam ==
  \A i \in DOMAIN sent :
    sent[i].projectId # Null =>
      /\ sent[i].teamId # Null
      /\ \E j \in DOMAIN RemoteProjects :
           /\ RemoteProjects[j].id = sent[i].projectId
           /\ OwnedBy(RemoteProjects[j], sent[i].teamId)

=============================================================================
